---- MODULE Spec2Model ----
(***************************************************************************)
(* LazyLLMs: the refresh scheduler of LazyLLMsApp (cli/tui.py), the model  *)
(* listing client get_running_models (core/ollama_api.py), the selection   *)
(* handlers of the app and of ModelsPanel, and the details and log panels. *)
(* Times are in milliseconds.                                              *)
(***************************************************************************)
EXTENDS Integers, Sequences, FiniteSets, TLC

(***************************************************************************)
(* Bounds of the model.                                                    *)
(***************************************************************************)
\* time.time() when the application is mounted (far above every interval)
StartTime == 10000
\* how long after StartTime the clock is followed
Horizon == 6000
\* the step of the clock, and how long it is followed, in the selection and
\* log specifications
SelStep == 50
SelHorizon == 1000
\* consecutive failing ticks and error notifications counted per source
MaxStreak == 3
\* longest raw listing compared by the change check
MaxList == 2
LogHorizon == 1000

MaxTime == StartTime + Horizon
SelMaxTime == StartTime + SelHorizon

(***************************************************************************)
(* Strings the code inspects character by character: model names.          *)
(***************************************************************************)
UPPER == <<"A","B","C","D","E","F","G","H","I","J","K","L","M",
           "N","O","P","Q","R","S","T","U","V","W","X","Y","Z">>
LOWER == <<"a","b","c","d","e","f","g","h","i","j","k","l","m",
           "n","o","p","q","r","s","t","u","v","w","x","y","z">>

\* str.lower() on one character
LowerChar(c) ==
    IF \E i \in 1..26 : UPPER[i] = c
    THEN LOWER[CHOOSE i \in 1..26 : UPPER[i] = c]
    ELSE c

\* str.lower()
Lower(s) == [i \in 1..Len(s) |-> LowerChar(s[i])]

\* sub in s
Contains(s, sub) ==
    \E i \in 1..(Len(s) - Len(sub) + 1) : SubSeq(s, i, i + Len(sub) - 1) = sub

\* s.split(':')[0]
BeforeColon(s) ==
    IF \E i \in 1..Len(s) : s[i] = ":"
    THEN SubSeq(s, 1, (CHOOSE i \in 1..Len(s) :
                          s[i] = ":" /\ \A j \in 1..(i-1) : s[j] # ":") - 1)
    ELSE s

\* the model names of the backend, and their characters
Names == {"llama3:70b", "mistral"}

Chars(n) ==
    CASE n = "llama3:70b" -> <<"l","l","a","m","a","3",":","7","0","b">>
      [] n = "mistral"    -> <<"m","i","s","t","r","a","l">>
      [] n = "Llama-2:13b" -> <<"L","l","a","m","a","-","2",":","1","3","b">>
      [] n = "custom-net-v2" -> <<"c","u","s","t","o","m","-","n","e","t","-","v","2">>
      [] n = "llama3:70b-q4_K_M" ->
            <<"l","l","a","m","a","3",":","7","0","b","-","q","4","_","K","_","M">>
      [] n = "phi3:3b-Q8_0" -> <<"p","h","i","3",":","3","b","-","Q","8","_","0">>
      [] OTHER            -> <<>>

\* the order sorted(models, key=name) puts the names in
NameRank(n) ==
    CASE n = "llama3:70b" -> 1
      [] n = "mistral"    -> 2
      [] OTHER            -> 3

(***************************************************************************)
(* get_running_models: the descriptor of one listed model.                 *)
(***************************************************************************)
\* model.get(k, default)
Get(d, k, default) == IF k \in DOMAIN d THEN d[k] ELSE default

ParseQuant(name) ==
    IF Contains(Lower(name), <<"q","4">>) THEN "Q4_K_M"
    ELSE IF Contains(Lower(name), <<"q","8">>) THEN "Q8_0"
    ELSE "Q4_K_M"

ParseFamily(base_name) ==
    IF Contains(base_name, <<"l","l","a","m","a">>) THEN <<"l","l","a","m","a">>
    ELSE IF Contains(base_name, <<"m","i","s","t","r","a","l">>)
         THEN <<"m","i","s","t","r","a","l">>
    ELSE IF Contains(base_name, <<"g","e","m","m","a">>) THEN <<"g","e","m","m","a">>
    ELSE IF Contains(base_name, <<"q","w","e","n">>) THEN <<"q","w","e","n">>
    ELSE IF Contains(base_name, <<"p","h","i">>) THEN <<"p","h","i">>
    ELSE base_name

\* a scan that tries the short markers first
ParseParamSizeShortFirst(name) ==
    IF Contains(Lower(name), <<"3","b">>) THEN "3B"
    ELSE IF Contains(Lower(name), <<"7","b">>) THEN "7B"
    ELSE IF Contains(Lower(name), <<"1","3","b">>) THEN "13B"
    ELSE IF Contains(Lower(name), <<"7","0","b">>) THEN "70B"
    ELSE "7B"

ParseParamSize(name) ==
    IF Contains(Lower(name), <<"7","0","b">>) THEN "70B"
    ELSE IF Contains(Lower(name), <<"1","3","b">>) THEN "13B"
    ELSE IF Contains(Lower(name), <<"7","b">>) THEN "7B"
    ELSE IF Contains(Lower(name), <<"3","b">>) THEN "3B"
    ELSE "7B"

\* the enhanced_model built for one entry of the answer (the entry has a name)
EnhanceModel(model) ==
    [ name        |-> model.name,
      digest      |-> Get(model, "digest", "unknown"),
      size        |-> Get(model, "size", 0),
      details     |-> [ family             |-> ParseFamily(BeforeColon(Chars(model.name))),
                        parameter_size     |-> ParseParamSize(Chars(model.name)),
                        quantization_level |-> ParseQuant(Chars(model.name)),
                        format             |-> "gguf" ],
      modified_at |-> Get(model, "modified_at", ""),
      metrics     |-> [ throughput   |-> "10 tokens/s",
                        latency      |-> "150ms",
                        memory_usage |-> Get(model, "size", 0) ] ]

\* the loop over the entries: model['name'] raises KeyError on an entry without one
HasNames(models) == \A i \in 1..Len(models) : "name" \in DOMAIN models[i]

EnhanceAll(models) == [i \in 1..Len(models) |-> EnhanceModel(models[i])]

(***************************************************************************)
(* get_running_models: the retry loop.  outcomes[k] is what the k-th HTTP  *)
(* attempt meets: [kind |-> "exc"] (requests.RequestException) or          *)
(* [kind |-> "ok", models |-> the "models" array of the answer].           *)
(* The result: value (the list returned), raised (an exception other than  *)
(* RequestException left the function), failed (the list is [] because the *)
(* last attempt raised RequestException), attempts, sleeps (the delays     *)
(* slept, in seconds, each with the attempt it followed).                  *)
(***************************************************************************)
max_retries == 3
retry_delay == 1

\* a retry loop that sleeps the base delay every time
RetrySleepConstant(attempt) == retry_delay

\* time.sleep(retry_delay * (attempt + 1)), attempt counted from 0
RetrySleep(attempt) == retry_delay * (attempt + 1)

\* a last attempt whose exception leaves the function
FinalFailureRaises(attempt, sleeps) ==
    [value |-> <<>>, raised |-> TRUE, failed |-> TRUE,
     attempts |-> attempt + 1, sleeps |-> sleeps]

\* the last attempt raised RequestException: logger.error, return []
FinalFailure(attempt, sleeps) ==
    [value |-> <<>>, raised |-> FALSE, failed |-> TRUE,
     attempts |-> attempt + 1, sleeps |-> sleeps]

RECURSIVE RetryLoop(_, _, _)
RetryLoop(outcomes, attempt, sleeps) ==
    IF attempt = max_retries
    THEN [value |-> <<>>, raised |-> FALSE, failed |-> FALSE,
          attempts |-> attempt, sleeps |-> sleeps]
    ELSE LET o == outcomes[attempt + 1] IN
         IF o.kind = "exc"
         THEN IF attempt = max_retries - 1
              THEN FinalFailure(attempt, sleeps)
              ELSE RetryLoop(outcomes, attempt + 1,
                             Append(sleeps, [after |-> attempt,
                                             delay |-> RetrySleep(attempt)]))
         ELSE IF o.models # <<>>
              THEN IF HasNames(o.models)
                   THEN [value |-> EnhanceAll(o.models), raised |-> FALSE,
                         failed |-> FALSE, attempts |-> attempt + 1, sleeps |-> sleeps]
                   ELSE [value |-> <<>>, raised |-> TRUE, failed |-> FALSE,
                         attempts |-> attempt + 1, sleeps |-> sleeps]
              ELSE RetryLoop(outcomes, attempt + 1, sleeps)

GetRunningModels(outcomes) == RetryLoop(outcomes, 0, <<>>)

(***************************************************************************)
(* The backend: the entries it may list and the answers it may give.       *)
(***************************************************************************)
RawA    == [name |-> "llama3:70b", digest |-> "d1", size |-> 4, modified_at |-> "t1"]
RawB    == [name |-> "mistral", digest |-> "d2", size |-> 2, modified_at |-> "t1"]
\* an entry without a name
RawBad  == [digest |-> "d3", size |-> 1, modified_at |-> "t1"]

Listings == { <<>>, <<RawA>>, <<RawA, RawB>>, <<RawBad>> }

AttemptOutcomes == {[kind |-> "exc"]} \cup {[kind |-> "ok", models |-> l] : l \in Listings}

OutcomeSeqs == [1..max_retries -> AttemptOutcomes]

\* what a caller of get_running_models reads of a call
Answer(r) == [value |-> r.value, raised |-> r.raised, failed |-> r.failed]

Answers == {Answer(GetRunningModels(o)) : o \in OutcomeSeqs}


(***************************************************************************)
(* State.                                                                  *)
(***************************************************************************)
VARIABLES
    now,        \* time.time(), in milliseconds
    mounted,    \* LazyLLMsApp.on_mount has run
    cache,      \* LazyLLMsApp._cache
    app,        \* LazyLLMsApp._last_selection_time, _last_selected
    mp,         \* ModelsPanel: the rows of its table, the cursor, _last_selected, _last_selection_time
    sysp,       \* SystemPanel: what its table shows
    perf,       \* PerformancePanel: MetricsManager._last_update, what its table shows
    det,        \* ModelDetailsPanel: selected_model, _last_update, its table
    logp,       \* LogPanel: _selected_model, _last_update, _log_history, the lines of the Log widget
    last,       \* history: what the handler that ran last did
    hist,       \* history: the last accepted selection, the last log fetch since a clear
    streak,     \* history: one source, its run of failing ticks and their error notifications
    grm,        \* one call of get_running_models: its outcomes and its result
    cmp,        \* one change check: the two raw listings and its verdict
    startup,    \* what config.yaml holds, and the period of the refresh timer once set
    loop,       \* the event loop: the events waiting, the handler running, the fetches in flight
    sysmon,     \* SystemPanel: mounted or not, _peak_values, the rows of its table, error notified
    seen        \* history: the largest value get_system_usage returned per resource since mount

vars == <<now, mounted, cache, app, mp, sysp, perf, det, logp, last, hist, streak, grm, cmp,
          startup, loop, sysmon, seen>>

\* Python's None where a string is expected
None == "<None>"

(***************************************************************************)
(* on_mount: the refresh interval read from config.yaml, in milliseconds.  *)
(***************************************************************************)
DefaultRefreshInterval == 2000

\* what config.yaml may hold: no file, a file yaml cannot load, an empty file
\* (safe_load gives None), no 'monitoring' key, a 'monitoring' that is not a
\* mapping, no 'refresh_interval' key, a null, a text float() cannot read, a
\* number, a text of digits
Configs ==
    {[kind |-> k, value |-> 0] :
        k \in {"absent", "malformed", "empty", "no_monitoring", "monitoring_not_mapping",
               "no_key", "null", "text"}}
    \cup {[kind |-> k, value |-> v] :
            k \in {"number", "digits"}, v \in {-1000, 0, 500, 2000, 5000}}

\* refresh_interval as on_mount computes it
RefreshInterval(config) ==
    CASE config.kind \in {"absent", "malformed"} -> DefaultRefreshInterval
      [] config.kind \in {"empty", "monitoring_not_mapping"} -> DefaultRefreshInterval
      [] config.kind \in {"no_monitoring", "no_key"} -> DefaultRefreshInterval
      [] config.kind \in {"null", "text"} -> DefaultRefreshInterval
      [] OTHER -> config.value

NoConfig == [config |-> [kind |-> "absent", value |-> 0], timer |-> FALSE, period |-> 0]

\* the events the loop delivers: the mount of the application, a tick of the
\* refresh timer, the key r
Events == {"mount", "timer", "key_r"}

\* a handler that is not running
NotRunning == [active |-> FALSE, todo |-> <<>>, calling |-> "none"]

\* the event loop at rest: no event waits, no timer is set, no handler runs
IdleLoop == [pending |-> {}, timer |-> FALSE, handlers |-> [e \in Events |-> NotRunning]]

(***************************************************************************)
(* SystemPanel: get_system_usage, _add_resource_row, update_metrics        *)
(***************************************************************************)
\* the keys of the dict get_system_usage returns, which are the keys of
\* _peak_values after on_mount
Resources == {"CPU", "RAM", "GPU", "VRAM"}

Max(a, b) == IF a >= b THEN a ELSE b

\* a value handed to _add_resource_row: a number, or the default "N/A" of
\* usage.get for a key the dict does not hold
NA == [numeric |-> FALSE, v |-> 0]
Num(n) == [numeric |-> TRUE, v |-> n]

\* what one call of get_system_usage can give: percentages of CPU, RAM and
\* GPU, megabytes of VRAM (0 and 0 without a GPU), or an exception of psutil
UsageReadings ==
    [raised : {FALSE}, CPU : {10, 60, 90}, RAM : {20, 70}, GPU : {0, 35, 80}, VRAM : {0, 512, 2048}]
        \cup {[raised |-> TRUE, CPU |-> 0, RAM |-> 0, GPU |-> 0, VRAM |-> 0]}

\* usage.get(key, "N/A")
UsageGet(usage, key) == IF key \in Resources THEN Num(usage[key]) ELSE NA

\* SystemPanel defines get_status_style; _get_status, which _add_resource_row
\* calls, is defined nowhere, so the call raises AttributeError
HasGetStatus == FALSE

\* SystemPanel before its on_mount
UnmountedSystemPanel ==
    [mounted |-> FALSE, peak_values |-> [r \in Resources |-> 0], rows |-> <<>>,
     notified |-> FALSE]

NothingSeen == [r \in Resources |-> 0]

\* _add_resource_row: the panel after the call, and whether the call raised an
\* exception other than ValueError and TypeError
AddResourceRow(p, resource, value) ==
    IF ~value.numeric
    THEN [panel |-> [p EXCEPT !.rows = Append(@, [resource |-> resource, numeric |-> FALSE,
                                                  value |-> 0, peak |-> 0])],
          raised |-> FALSE]
    ELSE LET peak == IF resource \in DOMAIN p.peak_values THEN p.peak_values[resource] ELSE 0
             pv == [r \in DOMAIN p.peak_values \cup {resource} |->
                        IF r = resource THEN Max(peak, value.v) ELSE p.peak_values[r]]
         IN  IF HasGetStatus
             THEN [panel |-> [p EXCEPT !.peak_values = pv,
                                       !.rows = Append(@, [resource |-> resource,
                                                           numeric |-> TRUE,
                                                           value |-> value.v,
                                                           peak |-> pv[resource]])],
                   raised |-> FALSE]
             ELSE [panel |-> [p EXCEPT !.peak_values = pv], raised |-> TRUE]

\* the calls of _add_resource_row in update_metrics, in order; gpu_count
\* defaults to 1, the keys GPU_util, GPU_mem and GPU_name are read
ResourceRows(usage) ==
    << <<"CPU", UsageGet(usage, "CPU")>>,
       <<"RAM", UsageGet(usage, "RAM")>>,
       <<"GPU 0", UsageGet(usage, "GPU_util")>>,
       <<"GPU 0 Memory", UsageGet(usage, "GPU_mem")>> >>

RECURSIVE AddRows(_, _)
AddRows(p, calls) ==
    IF calls = <<>>
    THEN [panel |-> p, raised |-> FALSE]
    ELSE LET r == AddResourceRow(p, Head(calls)[1], Head(calls)[2])
         IN  IF r.raised THEN r ELSE AddRows(r.panel, Tail(calls))

\* SystemPanel.update_metrics: any exception ends the call with a notification
UpdateMetrics(p, usage) ==
    IF usage.raised
    THEN [p EXCEPT !.notified = TRUE]
    ELSE LET r == AddRows([p EXCEPT !.rows = <<>>], ResourceRows(usage))
         IN  [r.panel EXCEPT !.notified = r.raised]

\* the largest value returned per resource, after one more reading
See(s, usage) ==
    IF usage.raised THEN s ELSE [r \in Resources |-> Max(s[r], usage[r])]

\* LazyLLMsApp._update_intervals
SystemInterval == 2000
ModelsInterval == 5000
PerformanceInterval == 3000

Sources == {"system", "models", "performance"}

(***************************************************************************)
(* ModelsPanel.update_models                                               *)
(***************************************************************************)
NoModelsRow == "No models"
ErrorRow == "Error loading models"

RECURSIVE InsertByName(_, _)
InsertByName(sorted, m) ==
    IF sorted = <<>> THEN <<m>>
    ELSE IF NameRank(m.name) < NameRank(Head(sorted).name)
         THEN <<m>> \o sorted
         ELSE <<Head(sorted)>> \o InsertByName(Tail(sorted), m)

\* sorted(models, key=lambda x: x.get('name', '')), a stable sort
RECURSIVE SortByName(_)
SortByName(models) ==
    IF models = <<>> THEN <<>>
    ELSE InsertByName(SortByName(SubSeq(models, 1, Len(models) - 1)),
                      models[Len(models)])

RowNames(models) == [i \in 1..Len(models) |-> models[i].name]

\* the panel after update_models met answer r; the cursor is counted from 0
UpdateModels(panel, r) ==
    IF r.raised
    THEN [panel EXCEPT !.rows = <<ErrorRow>>, !.cursor = 0]
    ELSE IF r.value = <<>>
    THEN [panel EXCEPT !.rows = <<NoModelsRow>>, !.cursor = 0]
    ELSE LET rows == RowNames(SortByName(r.value))
             current_cursor == panel.cursor
         IN [panel EXCEPT
               !.rows = rows,
               !.cursor =
                 IF \E i \in 1..Len(rows) : rows[i] = panel.last_selected
                 THEN (CHOOSE i \in 1..Len(rows) :
                          /\ rows[i] = panel.last_selected
                          /\ \A j \in (i+1)..Len(rows) : rows[j] # panel.last_selected) - 1
                 ELSE IF current_cursor < Len(rows) THEN current_cursor
                 ELSE 0]

\* the error notifications update_models emits
UpdateModelsNotes(r) == IF r.raised THEN 1 ELSE 0

(***************************************************************************)
(* LazyLLMsApp.refresh_data                                                *)
(***************************************************************************)
\* the three due checks
SystemDue(c, t) == t - c.last_update > SystemInterval
ModelsDue(c, t) == t - c.models_last_update > ModelsInterval
PerformanceDue(c, t) == t - c.performance_last_update > PerformanceInterval

\* a change check that compares only the names
ModelsChangedByName(new_models, models_data) ==
    ~models_data.present \/ RowNames(new_models) # RowNames(models_data.value)

\* a change check that reports every fetched list as changed
ModelsAlwaysChanged(new_models, models_data) == TRUE

\* new_models != self._cache.get('models_data')
ModelsChanged(new_models, models_data) ==
    ~models_data.present \/ new_models # models_data.value

\* MetricsManager.should_update
ShouldUpdate(p, t) == t - p.metrics_last_update > p.update_interval

Sat(n) == IF n > MaxStreak THEN MaxStreak ELSE n

\* the observed source's run of failing ticks after a tick in which it was
\* fetched or not
NextStreak(s, fetched, failedTick, notes) ==
    IF ~fetched THEN s
    ELSE IF failedTick
         THEN [s EXCEPT !.fails = Sat(@ + 1), !.notes = Sat(@ + notes)]
         ELSE [s EXCEPT !.fails = 0, !.notes = 0]

\* an answer standing for a call that is not made
NotCalled == [value |-> <<>>, raised |-> FALSE, failed |-> FALSE]

\* The whole of refresh_data at time t, from cache c, models panel m, system
\* panel s, performance panel p and failure runs st: the state it leaves.
\* sysOk: get_system_usage returned; r1: the answer to refresh_data's own
\* get_running_models; r2, r4: the answers to the calls made by
\* ModelsPanel.update_models and PerformancePanel.update_metrics; statsOk: the
\* call made by ModelStatsPanel.update_stats did not raise.
RefreshData(op, c, m, s, p, st, t, sysOk, r1, r2, statsOk, r4) ==
    LET sysDue   == SystemDue(c, t)
        modDue   == ModelsDue(c, t)
        modRaise == modDue /\ r1.raised
        changed  == modDue /\ ~r1.raised /\ ModelsChanged(r1.value, c.models_data)
        perfDue  == PerformanceDue(c, t)
        perfCall == perfDue /\ ~modRaise
        perfFetch == perfCall /\ ShouldUpdate(p, t)
        sysNotes == IF sysDue /\ ~sysOk THEN 1 ELSE 0
        modNotes == (IF modRaise THEN 1 ELSE 0)
                    + (IF changed THEN UpdateModelsNotes(r2) ELSE 0)
                    + (IF changed /\ ~statsOk THEN 1 ELSE 0)
        perfNotes == IF perfFetch /\ r4.raised THEN 1 ELSE 0
    IN
    [ cache |-> [c EXCEPT
                   !.last_update = IF sysDue THEN t ELSE @,
                   !.models_data = IF changed THEN [present |-> TRUE, value |-> r1.value]
                                   ELSE @,
                   !.models_last_update = IF modDue /\ ~modRaise THEN t ELSE @,
                   !.performance_last_update = IF perfCall THEN t ELSE @],
      sysp |-> IF sysDue /\ sysOk THEN [s EXCEPT !.table = "rows"] ELSE s,
      mp |-> IF changed THEN UpdateModels(m, r2) ELSE m,
      perf |-> IF perfFetch
               THEN [p EXCEPT !.table = IF r4.raised \/ r4.value = <<>>
                                         THEN "empty" ELSE "rows"]
               ELSE p,
      last |-> [op |-> op, at |-> t,
                sysElapsed |-> t - c.last_update,
                modElapsed |-> t - c.models_last_update,
                perfElapsed |-> t - c.performance_last_update,
                sysFetched |-> sysDue, sysFailed |-> sysDue /\ ~sysOk,
                modFetched |-> modDue,
                modAnswer |-> IF modDue THEN r1 ELSE NotCalled,
                preModels |-> c.models_data,
                changed |-> changed,
                panelCalled |-> changed,
                statsCalled |-> changed,
                perfCalled |-> perfCall, perfFetched |-> perfFetch,
                refreshed |-> FALSE,
                errNotes |-> sysNotes + modNotes + perfNotes],
      streak |-> CASE st.source = "system" ->
                        NextStreak(st, sysDue, ~sysOk, sysNotes)
                   [] st.source = "models" ->
                        NextStreak(st, modDue, r1.raised \/ r1.failed, modNotes)
                   [] OTHER ->
                        NextStreak(st, perfFetch, r4.raised \/ r4.failed, perfNotes) ]

\* the answers the calls of one refresh_data may get: a call that is not made
\* gets none
SysAnswers(c, t) == IF SystemDue(c, t) THEN BOOLEAN ELSE {TRUE}
FetchAnswers(c, t) == IF ModelsDue(c, t) THEN Answers ELSE {NotCalled}
PanelAnswers(c, t, r1) ==
    IF ModelsDue(c, t) /\ ~r1.raised /\ ModelsChanged(r1.value, c.models_data)
    THEN Answers ELSE {NotCalled}
StatsAnswers(c, t, r1) ==
    IF ModelsDue(c, t) /\ ~r1.raised /\ ModelsChanged(r1.value, c.models_data)
    THEN BOOLEAN ELSE {TRUE}
\* the performance table is followed as empty or not: one listing stands for all
PerfAnswers(c, p, t, r1) ==
    IF PerformanceDue(c, t) /\ ~(ModelsDue(c, t) /\ r1.raised) /\ ShouldUpdate(p, t)
    THEN {a \in Answers : Len(a.value) <= 1} ELSE {NotCalled}

\* the state one run of refresh_data leaves
Leave(n) ==
    /\ cache' = n.cache
    /\ mp' = n.mp
    /\ sysp' = n.sysp
    /\ perf' = n.perf
    /\ last' = n.last
    /\ streak' = n.streak

\* the timer set by set_interval fires: refresh_data
TimerTick ==
    /\ mounted
    /\ \E sysOk \in SysAnswers(cache, now) :
       \E r1 \in FetchAnswers(cache, now) :
       \E r2 \in PanelAnswers(cache, now, r1) :
       \E statsOk \in StatsAnswers(cache, now, r1) :
       \E r4 \in PerfAnswers(cache, perf, now, r1) :
          Leave(RefreshData("refresh", cache, mp, sysp, perf, streak, now,
                            sysOk, r1, r2, statsOk, r4))
    /\ UNCHANGED <<now, mounted, app, det, logp, hist, grm, cmp, startup, loop, sysmon, seen>>

\* the "Refreshed" notification that ends action_refresh
Refreshed(n) == [n EXCEPT !.last.refreshed = TRUE]

\* action_refresh (key r): refresh_data, then the "Refreshed" notification
ActionRefresh ==
    /\ mounted
    /\ \E sysOk \in SysAnswers(cache, now) :
       \E r1 \in FetchAnswers(cache, now) :
       \E r2 \in PanelAnswers(cache, now, r1) :
       \E statsOk \in StatsAnswers(cache, now, r1) :
       \E r4 \in PerfAnswers(cache, perf, now, r1) :
          Leave(Refreshed(RefreshData("refresh", cache, mp, sysp, perf, streak, now,
                                      sysOk, r1, r2, statsOk, r4)))
    /\ UNCHANGED <<now, mounted, app, det, logp, hist, grm, cmp, startup, loop, sysmon, seen>>

\* LazyLLMsApp.on_mount: SystemPanel.update_metrics, ModelsPanel.update_models,
\* set_interval, then the first refresh_data
OnMount ==
    /\ ~mounted
    /\ mounted' = TRUE
    /\ \E sysOk0 \in BOOLEAN :
       \E r0 \in Answers :
       \E sysOk \in SysAnswers(cache, now) :
       \E r1 \in FetchAnswers(cache, now) :
       \E r2 \in PanelAnswers(cache, now, r1) :
       \E statsOk \in StatsAnswers(cache, now, r1) :
       \E r4 \in PerfAnswers(cache, perf, now, r1) :
          Leave(RefreshData("refresh", cache, UpdateModels(mp, r0),
                            IF sysOk0 THEN [sysp EXCEPT !.table = "rows"] ELSE sysp,
                            perf, streak, now, sysOk, r1, r2, statsOk, r4))
    /\ startup' = [startup EXCEPT !.timer = TRUE,
                                  !.period = RefreshInterval(startup.config)]
    /\ UNCHANGED <<now, app, det, logp, hist, grm, cmp, loop, sysmon, seen>>

\* the clock moves on by a second
AdvanceSecond ==
    /\ mounted
    /\ now + 1000 <= MaxTime
    /\ now' = now + 1000
    /\ UNCHANGED <<mounted, cache, app, mp, sysp, perf, det, logp, last, hist, streak, grm, cmp, startup, loop, sysmon, seen>>

(***************************************************************************)
(* The state after compose and the widgets' own on_mount.                  *)
(***************************************************************************)
InitCache ==
    [last_update |-> 0, models_last_update |-> 0, performance_last_update |-> 0,
     models_data |-> [present |-> FALSE, value |-> <<>>]]

InitPanels ==
    /\ app = [last_selection_time |-> 0, last_selected |-> None]
    /\ \E r \in Answers :
          mp = UpdateModels([rows |-> <<>>, cursor |-> 0, last_selected |-> None,
                             last_selection_time |-> 0], r)
    /\ sysp \in {[table |-> "rows"], [table |-> "empty"]}
    /\ perf = [metrics_last_update |-> StartTime, update_interval |-> 2000, table |-> "empty"]
    /\ det = [selected_model |-> None, last_update |-> 0,
              table |-> [kind |-> "placeholder", model |-> None]]
    /\ logp = [selected_model |-> None, last_update |-> 0, history |-> {}, lines |-> <<>>]

Idle == [op |-> "idle"]

InitHist == [accept |-> [model |-> None, at |-> 0], fetch |-> [valid |-> FALSE, lines |-> <<>>, answer |-> "none"]]

Init ==
    /\ now = StartTime
    /\ mounted = FALSE
    /\ cache = InitCache
    /\ InitPanels
    /\ last = [op |-> "init"]
    /\ hist = InitHist
    /\ sysmon = UnmountedSystemPanel
    /\ seen = NothingSeen
    /\ \E s \in Sources : streak = [source |-> s, fails |-> 0, notes |-> 0]
    /\ grm = Idle
    /\ cmp = Idle
    /\ startup = NoConfig
    /\ loop = IdleLoop

Next ==
    \/ OnMount
    \/ TimerTick
    \/ ActionRefresh
    \/ AdvanceSecond

Spec == Init /\ [][Next]_vars

(***************************************************************************)
(* on_mount over every content of config.yaml.                             *)
(***************************************************************************)
InitConfig ==
    /\ now = StartTime
    /\ mounted = FALSE
    /\ cache = InitCache
    /\ InitPanels
    /\ mp.rows = <<NoModelsRow>>
    /\ sysp.table = "empty"
    /\ last = [op |-> "init"]
    /\ hist = InitHist
    /\ sysmon = UnmountedSystemPanel
    /\ seen = NothingSeen
    /\ streak = [source |-> "models", fails |-> 0, notes |-> 0]
    /\ grm = Idle
    /\ cmp = Idle
    /\ \E c \in Configs : startup = [NoConfig EXCEPT !.config = c]
    /\ loop = IdleLoop

SpecConfig == InitConfig /\ [][OnMount]_vars


(***************************************************************************)
(* LogPanel                                                                *)
(***************************************************************************)
\* the log lines of the backend
LogTexts == {"A", "B", "C", "ERROR", "Error", "warning", "WARNING ERROR"}

\* the line get_model_logs returns when its request raised
FetchErrorLine == "[ERROR] Failed to fetch logs"

\* the characters of a line.  The simulated lines hold their tag, a time
\* stamp of digits, the model name and a number: of these only the tag is
\* kept.
LineChars(l) ==
    CASE l \in {"A", "B", "C"} -> <<l>>
      [] l = "ERROR" -> <<"E","R","R","O","R">>
      [] l = "Error" -> <<"E","r","r","o","r">>
      [] l = "warning" -> <<"w","a","r","n","i","n","g">>
      [] l = "WARNING ERROR" ->
            <<"W","A","R","N","I","N","G"," ","E","R","R","O","R">>
      [] l = FetchErrorLine -> <<"[","E","R","R","O","R","]">>
      [] OTHER -> <<"[","I","N","F","O","]">>

\* get_model_logs never raises: it returns the last lines of the backend, its
\* simulated lines, or one error line; always at least one line, at most 3
LogAnswers ==
    { <<"A">>, <<"C">>, <<"A", "B">>, <<"C", "A">>, <<"B", "B">>,
      <<"A", "B", "C">>, <<"B", "C", "B">> }

\* logs[-3:]
LastThree(logs) == IF Len(logs) > 3 THEN SubSeq(logs, Len(logs) - 2, Len(logs)) ELSE logs

\* time.strftime('%H:%M:%S') at time t: the clock read in whole seconds
TimeStamp(t) == "[" \o ToString(t \div 1000) \o "]"

\* the values random.randint(2, 8) is let to take
MemoryGB == {2, 3}

\* the simulated lines of get_model_logs at time t
SimulatedLogs(model_name, t, gb) ==
    << TimeStamp(t) \o "[INFO] " \o model_name \o " Processing Requests...",
       TimeStamp(t) \o "[INFO] Memory Usage: " \o ToString(gb) \o "GB",
       TimeStamp(t) \o "[DEBUG] Serving requests on port 11434" >>

\* what the backend does with the request of get_model_logs: it answers
\* with a list of lines (maybe none), with an error status, or the request
\* raises
LogResponses ==
    {[kind |-> "ok", logs |-> l] :
        l \in LogAnswers \cup { <<>>, <<"A", "B", "C", "A">>, <<"ERROR", "warning">>,
                                <<"Error", "WARNING ERROR">> }}
    \cup {[kind |-> "status", logs |-> <<>>], [kind |-> "exc", logs |-> <<>>]}

NoResponse == [kind |-> "none", logs |-> <<>>]

\* get_model_logs(model_name) at time t, the backend answering resp
GetModelLogs(model_name, resp, t, gb) ==
    IF resp.kind = "exc" THEN <<FetchErrorLine>>
    ELSE IF resp.kind = "ok" /\ resp.logs # <<>> THEN LastThree(resp.logs)
    ELSE SimulatedLogs(model_name, t, gb)

\* how the backend answered: with lines, with none, or not at all
AnswerKind(resp) ==
    IF resp.kind = "ok" THEN (IF resp.logs = <<>> THEN "empty" ELSE "lines") ELSE resp.kind

\* the answers followed when a selection fetches the logs
SelLogAnswers == { <<"A">>, <<"B", "C", "B">> }

\* the style chosen for an entry
LogStyle(entry) ==
    IF Contains(LineChars(entry), <<"E","R","R","O","R">>) THEN "red"
    ELSE IF Contains(LineChars(entry), <<"W","A","R","N","I","N","G">>) THEN "yellow"
    ELSE "green"

\* a loop that skips only what was in the history when the call began
RECURSIVE NewLogsStaleHistory(_, _)
NewLogsStaleHistory(logs, history) ==
    IF logs = <<>> THEN <<>>
    ELSE IF Head(logs) \in history
         THEN NewLogsStaleHistory(Tail(logs), history)
         ELSE <<[text |-> Head(logs), style |-> LogStyle(Head(logs))]>>
              \o NewLogsStaleHistory(Tail(logs), history)

\* the loop of update_logs over the fetched entries: new_logs
RECURSIVE NewLogs(_, _)
NewLogs(logs, history) ==
    IF logs = <<>> THEN <<>>
    ELSE IF Head(logs) \in history
         THEN NewLogs(Tail(logs), history)
         ELSE <<[text |-> Head(logs), style |-> LogStyle(Head(logs))]>>
              \o NewLogs(Tail(logs), history \cup {Head(logs)})

Range(q) == {q[i] : i \in 1..Len(q)}

SelectPrompt == [text |-> "Select a model to view logs...", style |-> "dim"]

\* LogPanel.clear_logs
ClearLogs(lp) == [lp EXCEPT !.lines = <<>>, !.history = {}, !.last_update = 0]

\* whether update_logs at time t gets as far as get_model_logs
LogsFetched(lp, t) == ~(t - lp.last_update < 500) /\ lp.selected_model # None

\* LogPanel.update_logs at time t, logs being what get_model_logs answers
UpdateLogs(lp, t, logs) ==
    IF t - lp.last_update < 500 THEN lp
    ELSE IF lp.selected_model = None
    THEN IF lp.lines = <<>> THEN [lp EXCEPT !.lines = <<SelectPrompt>>] ELSE lp
    ELSE [lp EXCEPT !.lines = @ \o NewLogs(logs, lp.history),
                    !.history = @ \cup Range(logs),
                    !.last_update = t]

\* the selected_model setter of LogPanel
SetLogSelected(lp, value, t, logs) ==
    IF value # lp.selected_model
    THEN UpdateLogs(ClearLogs([lp EXCEPT !.selected_model = value]), t, logs)
    ELSE lp

(***************************************************************************)
(* ModelDetailsPanel.update_details                                        *)
(***************************************************************************)
Listed(models, model_name) == \E i \in 1..Len(models) : models[i].name = model_name

\* whether update_details(model_name) at time t gets as far as get_running_models
DetailsFetched(d, model_name, t) == model_name # None /\ ~(t - d.last_update < 1000)

\* update_details(model_name) at time t, r being what get_running_models answers
UpdateDetails(d, model_name, t, r) ==
    IF model_name = None
    THEN [d EXCEPT !.table = [kind |-> "placeholder", model |-> None]]
    ELSE IF t - d.last_update < 1000
    THEN [d EXCEPT !.table = [kind |-> "empty", model |-> None]]
    ELSE IF r.raised \/ ~Listed(r.value, model_name)
    THEN [d EXCEPT !.selected_model = model_name,
                   !.table = [kind |-> "error", model |-> None]]
    ELSE [d EXCEPT !.selected_model = model_name,
                   !.table = [kind |-> "attributes", model |-> model_name],
                   !.last_update = t]

(***************************************************************************)
(* LazyLLMsApp.action_select_model and the handlers that lead to it        *)
(***************************************************************************)
DebounceWindow == 100

\* the text of the first cell of the row under the cursor
CursorRow(panel) == panel.rows[panel.cursor + 1]

\* whether action_select_model takes the row under the cursor as a model
Selectable(panel) ==
    /\ Len(panel.rows) # 0
    /\ CursorRow(panel) # NoModelsRow

\* action_select_model at time t: the details panel, the log panel and the
\* histories it leaves.  rd answers update_details' get_running_models, l1
\* the get_model_logs of the selected_model setter, l2 that of update_logs.
ActionSelectModel(panel, d, lp, h, t, rd, l1, l2) ==
    LET model_name == CursorRow(panel)
        lp1 == SetLogSelected(lp, model_name, t, l1)
        lp2 == ClearLogs(lp1)
    IN
    IF ~Selectable(panel)
    THEN [det |-> d, logp |-> lp, hist |-> h,
          last |-> [op |-> "select", row |-> CursorRow(panel), accepted |-> FALSE,
                    before |-> lp.selected_model, since |-> t - h.accept.at,
                    detailsFetched |-> FALSE, logsFetched |-> FALSE]]
    ELSE [det |-> UpdateDetails([d EXCEPT !.selected_model = model_name],
                                model_name, t, rd),
          logp |-> UpdateLogs(lp2, t, l2),
          hist |-> [accept |-> [model |-> model_name, at |-> t],
                    fetch |-> [valid |-> LogsFetched(lp2, t), lines |-> l2, answer |-> "lines"]],
          last |-> [op |-> "select", row |-> model_name, accepted |-> TRUE,
                    before |-> lp.selected_model, since |-> t - h.accept.at,
                    detailsFetched |-> DetailsFetched(d, model_name, t),
                    logsFetched |-> LogsFetched(lp2, t)]]

\* a handler that returns before action_select_model
NotSelected(panel, lp, h, t) ==
    [op |-> "select", row |-> CursorRow(panel), accepted |-> FALSE,
     before |-> lp.selected_model, since |-> t - h.accept.at,
     detailsFetched |-> FALSE, logsFetched |-> FALSE]

\* the answers the calls of one action_select_model may get
DetailsAnswers(panel, d, t) ==
    IF Selectable(panel) /\ DetailsFetched(d, CursorRow(panel), t)
    THEN Answers ELSE {NotCalled}
SetterLogAnswers(panel, lp) ==
    IF Selectable(panel) /\ CursorRow(panel) # lp.selected_model
    THEN SelLogAnswers ELSE {<<>>}
UpdateLogAnswers(panel) == IF Selectable(panel) THEN SelLogAnswers ELSE {<<>>}

\* the state action_select_model leaves
LeaveSelect(n) ==
    /\ det' = n.det
    /\ logp' = n.logp
    /\ hist' = n.hist
    /\ last' = n.last

\* action_select_model run with the cursor of panel, and every answer it may get
SelectWith(panel) ==
    \E rd \in DetailsAnswers(panel, det, now) :
    \E l1 \in SetterLogAnswers(panel, logp) :
    \E l2 \in UpdateLogAnswers(panel) :
       LeaveSelect(ActionSelectModel(panel, det, logp, hist, now, rd, l1, l2))

\* the rows the cursor can be moved to
CursorRows == 0..(Len(mp.rows) - 1)

\* on_data_table_row_highlighted: the cursor is on row i
OnRowHighlighted ==
    /\ mounted
    /\ \E i \in CursorRows :
          /\ mp' = [mp EXCEPT !.cursor = i]
          /\ SelectWith(mp')
    /\ UNCHANGED <<now, mounted, cache, app, sysp, perf, streak, grm, cmp, startup, loop, sysmon, seen>>

\* on_data_table_row_selected: row i is chosen (click or Enter)
OnRowSelected ==
    /\ mounted
    /\ \E i \in CursorRows :
          /\ mp' = [mp EXCEPT !.cursor = i]
          /\ SelectWith(mp')
    /\ UNCHANGED <<now, mounted, cache, app, sysp, perf, streak, grm, cmp, startup, loop, sysmon, seen>>

\* LazyLLMsApp.on_data_table_selection_changed, the cursor being on row i
OnSelectionChanged ==
    /\ mounted
    /\ \E i \in CursorRows :
          /\ mp' = [mp EXCEPT !.cursor = i]
          /\ IF now - app.last_selection_time < DebounceWindow
             THEN /\ app' = app
                  /\ last' = NotSelected(mp', logp, hist, now)
                  /\ UNCHANGED <<det, logp, hist, startup, loop, sysmon, seen>>
             ELSE IF CursorRow(mp') # app.last_selected
             THEN /\ app' = [last_selected |-> CursorRow(mp'),
                             last_selection_time |-> now]
                  /\ SelectWith(mp')
             ELSE /\ app' = app
                  /\ last' = NotSelected(mp', logp, hist, now)
                  /\ UNCHANGED <<det, logp, hist, startup, loop, sysmon, seen>>
    /\ UNCHANGED <<now, mounted, cache, sysp, perf, streak, grm, cmp, startup, loop, sysmon, seen>>

\* ModelsPanel.on_data_table_selection_changed, the cursor being on row i
PanelOnSelectionChanged ==
    /\ mounted
    /\ \E i \in CursorRows :
          IF now - mp.last_selection_time < DebounceWindow
          THEN /\ mp' = [mp EXCEPT !.cursor = i]
               /\ last' = NotSelected(mp', logp, hist, now)
               /\ UNCHANGED <<det, logp, hist, startup, loop, sysmon, seen>>
          ELSE /\ mp' = [mp EXCEPT !.cursor = i,
                                   !.last_selected = mp.rows[i + 1],
                                   !.last_selection_time = now]
               /\ SelectWith(mp')
    /\ UNCHANGED <<now, mounted, cache, app, sysp, perf, streak, grm, cmp, startup, loop, sysmon, seen>>

\* ModelsPanel.on_data_table_highlight_changed, the cursor being on row i
PanelOnHighlightChanged ==
    /\ mounted
    /\ \E i \in CursorRows :
          /\ mp' = [mp EXCEPT !.cursor = i]
          /\ SelectWith(mp')
    /\ UNCHANGED <<now, mounted, cache, app, sysp, perf, streak, grm, cmp, startup, loop, sysmon, seen>>

\* action_clear_logs (key c)
ActionClearLogs ==
    /\ mounted
    /\ logp' = ClearLogs(logp)
    /\ hist' = [hist EXCEPT !.fetch = [valid |-> FALSE, lines |-> <<>>, answer |-> "none"]]
    /\ last' = [op |-> "clear_logs"]
    /\ UNCHANGED <<now, mounted, cache, app, mp, sysp, perf, det, streak, grm, cmp, startup, loop, sysmon, seen>>

\* the steps of the clock between two events: a short one inside the
\* debounce window, and one as long as the details panel's rate limit
Steps == {SelStep, 1000}

\* the clock moves on by a step
AdvanceStep ==
    /\ mounted
    /\ \E d \in Steps :
          /\ now + d <= SelMaxTime
          /\ d = SelStep => (now - StartTime) % 1000 < DebounceWindow
          /\ now' = now + d
    /\ UNCHANGED <<mounted, cache, app, mp, sysp, perf, det, logp, last, hist, streak,
                   grm, cmp, startup, loop, sysmon, seen>>

\* the state after a mount in which the backend answered r to every call and
\* get_system_usage returned
Mounted(r) ==
    RefreshData("refresh", InitCache,
                UpdateModels([rows |-> <<>>, cursor |-> 0, last_selected |-> None,
                              last_selection_time |-> 0], r),
                [table |-> "rows"],
                [metrics_last_update |-> StartTime, update_interval |-> 2000,
                 table |-> "empty"],
                [source |-> "models", fails |-> 0, notes |-> 0],
                StartTime, TRUE, r, r, ~r.raised, NotCalled)

InitMounted ==
    /\ now = StartTime
    /\ mounted = TRUE
    /\ app = [last_selection_time |-> 0, last_selected |-> None]
    /\ det = [selected_model |-> None, last_update |-> 0,
              table |-> [kind |-> "placeholder", model |-> None]]
    /\ logp = [selected_model |-> None, last_update |-> 0, history |-> {}, lines |-> <<>>]
    /\ \E r \in Answers :
          /\ cache = Mounted(r).cache
          /\ mp = Mounted(r).mp
          /\ sysp = Mounted(r).sysp
          /\ perf = Mounted(r).perf
          /\ streak = Mounted(r).streak
    /\ last = [op |-> "init"]
    /\ hist = InitHist
    /\ sysmon = UnmountedSystemPanel
    /\ seen = NothingSeen
    /\ grm = Idle
    /\ cmp = Idle
    /\ startup = [NoConfig EXCEPT !.timer = TRUE, !.period = DefaultRefreshInterval]
    /\ loop = IdleLoop

NextSel ==
    \/ OnRowHighlighted
    \/ OnRowSelected
    \/ OnSelectionChanged
    \/ PanelOnSelectionChanged
    \/ PanelOnHighlightChanged
    \/ ActionClearLogs
    \/ AdvanceStep

SpecSel == InitMounted /\ [][NextSel]_vars

(***************************************************************************)
(* LogPanel on its own: its public methods called in any order.            *)
(***************************************************************************)
\* update_logs()
LogUpdate ==
    /\ mounted
    /\ \E resp \in (IF LogsFetched(logp, now) THEN LogResponses ELSE {NoResponse}) :
       \E gb \in MemoryGB :
          LET logs == IF LogsFetched(logp, now)
                      THEN GetModelLogs(logp.selected_model, resp, now, gb)
                      ELSE <<>>
          IN /\ logp' = UpdateLogs(logp, now, logs)
             /\ hist' = IF LogsFetched(logp, now)
                        THEN [hist EXCEPT !.fetch = [valid |-> TRUE, lines |-> logs,
                                                     answer |-> AnswerKind(resp)]]
                        ELSE hist
             /\ last' = [op |-> "update_logs", fetched |-> LogsFetched(logp, now),
                         before |-> hist.fetch, preCount |-> Len(logp.lines)]
    /\ UNCHANGED <<now, mounted, cache, app, mp, sysp, perf, det, streak, grm, cmp, startup, loop, sysmon, seen>>

\* selected_model = value
LogSelect ==
    /\ mounted
    /\ \E value \in Names :
       \E resp \in (IF value # logp.selected_model THEN LogResponses ELSE {NoResponse}) :
       \E gb \in MemoryGB :
          LET logs == IF value # logp.selected_model
                      THEN GetModelLogs(value, resp, now, gb)
                      ELSE <<>>
          IN /\ logp' = SetLogSelected(logp, value, now, logs)
             /\ hist' = IF value # logp.selected_model
                        THEN [hist EXCEPT !.fetch = [valid |-> TRUE, lines |-> logs,
                                                     answer |-> AnswerKind(resp)]]
                        ELSE hist
             /\ last' = [op |-> "selected_model", changed |-> value # logp.selected_model]
    /\ UNCHANGED <<now, mounted, cache, app, mp, sysp, perf, det, streak, grm, cmp, startup, loop, sysmon, seen>>

\* the clock moves on by the rate limit of update_logs
LogTick ==
    /\ mounted
    /\ now + 500 <= StartTime + LogHorizon
    /\ now' = now + 500
    /\ UNCHANGED <<mounted, cache, app, mp, sysp, perf, det, logp, last, hist, streak,
                   grm, cmp, startup, loop, sysmon, seen>>

\* mounted, two models listed
InitLog ==
    /\ InitMounted
    /\ mp.rows = <<"llama3:70b", "mistral">>

NextLog ==
    \/ LogSelect
    \/ LogUpdate
    \/ ActionClearLogs
    \/ LogTick

SpecLog == InitLog /\ [][NextLog]_vars

(***************************************************************************)
(* get_running_models on its own: one call, every outcome of its attempts. *)
(***************************************************************************)
AtRest ==
    /\ now = StartTime
    /\ mounted = FALSE
    /\ cache = InitCache
    /\ InitPanels
    /\ mp.rows = <<NoModelsRow>>
    /\ sysp.table = "empty"
    /\ last = [op |-> "init"]
    /\ hist = InitHist
    /\ sysmon = UnmountedSystemPanel
    /\ seen = NothingSeen
    /\ streak = [source |-> "models", fails |-> 0, notes |-> 0]

RestAtInit ==
    /\ AtRest
    /\ startup = NoConfig
    /\ loop = IdleLoop

InitFetch ==
    /\ RestAtInit
    /\ \E o \in OutcomeSeqs : grm = [op |-> "call", outcomes |-> o]
    /\ cmp = Idle

\* the call runs to its return
Fetch ==
    /\ grm.op = "call"
    /\ grm' = [op |-> "done", outcomes |-> grm.outcomes,
               result |-> GetRunningModels(grm.outcomes)]
    /\ UNCHANGED <<now, mounted, cache, app, mp, sysp, perf, det, logp, last, hist,
                   streak, cmp, startup, loop, sysmon, seen>>

SpecFetch == InitFetch /\ [][Fetch]_vars

\* show_tui: the connection check, then LazyLLMsApp().run(), whose first event
\* is the mount; an exception of the check is logged and raised again, and
\* the application is not constructed
ShowTui ==
    /\ grm.op = "call"
    /\ LET r == GetRunningModels(grm.outcomes)
       IN  /\ grm' = [op |-> "show_tui", outcomes |-> grm.outcomes, result |-> r,
                      raised |-> r.raised]
           /\ loop' = IF r.raised THEN loop ELSE [loop EXCEPT !.pending = {"mount"}]
    /\ UNCHANGED <<now, mounted, cache, app, mp, sysp, perf, det, logp, last, hist,
                   streak, cmp, startup, sysmon, seen>>

SpecStart == InitFetch /\ [][ShowTui]_vars

(***************************************************************************)
(* The change check of refresh_data on its own: the cached list is the     *)
(* result of an earlier call that was answered old, the new list the       *)
(* result of a call answered new.                                          *)
(***************************************************************************)
\* entries that differ from RawA in one field each
RawASize     == [RawA EXCEPT !.size = 5]
RawADigest   == [RawA EXCEPT !.digest = "d9"]
RawAModified == [RawA EXCEPT !.modified_at = "t2"]

CmpEntries == {RawA, RawASize, RawADigest, RawAModified, RawB}

CmpListings == UNION {[1..n -> CmpEntries] : n \in 0..MaxList}

\* the list a call returns when every attempt is answered with listing l
Fetched(l) == GetRunningModels([k \in 1..max_retries |-> [kind |-> "ok", models |-> l]]).value

InitChange ==
    /\ RestAtInit
    /\ grm = Idle
    /\ \E old \in CmpListings : \E new \in CmpListings :
          cmp = [op |-> "fetched", old |-> old, new |-> new]

\* new_models != self._cache.get('models_data') on the two results
Consider ==
    /\ cmp.op = "fetched"
    /\ cmp' = [op |-> "done", old |-> cmp.old, new |-> cmp.new,
               changed |-> ModelsChanged(Fetched(cmp.new),
                                         [present |-> TRUE, value |-> Fetched(cmp.old)])]
    /\ UNCHANGED <<now, mounted, cache, app, mp, sysp, perf, det, logp, last, hist,
                   streak, grm, startup, loop, sysmon, seen>>

SpecChange == InitChange /\ [][Consider]_vars

(***************************************************************************)
(* The descriptors of get_running_models: one listing, resolved twice.     *)
(***************************************************************************)
\* entries of the "models" array: names in several letter cases, with and
\* without markers, one with the details the backend supplies, one unnamed
RawUpper  == [name |-> "Llama-2:13b", digest |-> "d3", size |-> 3, modified_at |-> "t1"]
RawCustom == [name |-> "custom-net-v2"]
RawTagged == [name |-> "llama3:70b-q4_K_M", digest |-> "d4", size |-> 4]
RawPhi    == [name |-> "phi3:3b-Q8_0", size |-> 2]
RawHinted == [name |-> "mistral", digest |-> "d5", size |-> 5, modified_at |-> "t1",
              details |-> [family |-> "gemma", parameter_size |-> "2B",
                           quantization_level |-> "Q8_0"]]

ResolveEntries == {RawA, RawB, RawUpper, RawCustom, RawTagged, RawPhi, RawHinted, RawBad}

ResolveListings == UNION {[1..n -> ResolveEntries] : n \in 1..MaxList}

InitResolve ==
    /\ RestAtInit
    /\ cmp = Idle
    /\ \E l \in ResolveListings : grm = [op |-> "listed", listing |-> l, calls |-> <<>>]

\* a call that keeps what it resolved in the cache of the application
ResolveCallCaching ==
    /\ grm.op = "listed"
    /\ Len(grm.calls) < 2
    /\ now' = now + 1000
    /\ grm' = [grm EXCEPT !.calls = Append(@, Answer(GetRunningModels(
                  [k \in 1..max_retries |-> [kind |-> "ok", models |-> grm.listing]])))]
    /\ cache' = [cache EXCEPT !.models_last_update = now]
    /\ UNCHANGED <<mounted, app, mp, sysp, perf, det, logp, last, hist, streak, cmp, startup, loop, sysmon, seen>>

\* get_running_models called while the backend lists grm.listing; the
\* request takes a second
ResolveCall ==
    /\ grm.op = "listed"
    /\ Len(grm.calls) < 2
    /\ now' = now + 1000
    /\ grm' = [grm EXCEPT !.calls = Append(@, Answer(GetRunningModels(
                  [k \in 1..max_retries |-> [kind |-> "ok", models |-> grm.listing]])))]
    /\ UNCHANGED <<mounted, cache, app, mp, sysp, perf, det, logp, last, hist, streak, cmp, startup, loop, sysmon, seen>>

SpecResolve == InitResolve /\ [][ResolveCall]_vars

(***************************************************************************)
(* The handlers of the application on the event loop.  on_mount,           *)
(* refresh_data (the timer callback) and action_refresh (key r) are plain  *)
(* def functions whose fetches are blocking calls made on the thread of    *)
(* the event loop; no handler starts a thread, a worker or a task.  A      *)
(* handler is a sequence of steps; a fetch step is entered (StartFetch)    *)
(* and left (CompleteFetch), and events that arrive meanwhile wait.        *)
(***************************************************************************)
\* the steps refresh_data can take in one call: the fetch of each due source,
\* in the order of the code; a changed model list is followed by the reads of
\* update_models and update_stats; a raising model fetch ends the call
RefreshPlans ==
    {s \o m \o p : s \in {<<>>, <<"system">>},
                   m \in {<<>>, <<"models">>, <<"models", "models", "models">>},
                   p \in {<<>>, <<"performance">>}}

\* the steps of a handler
Plan(e) ==
    IF e = "mount"
    THEN {<<"system", "models", "set_interval">> \o r : r \in RefreshPlans}
    ELSE RefreshPlans

\* the fetches of source s that have been started and have not completed
InFlight(l, s) ==
    Cardinality({e \in Events : l.handlers[e].active /\ l.handlers[e].calling = s})

LoopReentrant(l) == TRUE

\* the loop takes the next event only when no handler is running: a plain def
\* handler runs to its return on the loop's thread
LoopIdle(l) == \A e \in Events : ~l.handlers[e].active

\* a timer tick or the key r arrives and waits in the queue
Post(e) ==
    /\ e \in {"timer", "key_r"}
    /\ "mount" \notin loop.pending
    /\ e \notin loop.pending
    /\ e = "timer" => loop.timer
    /\ loop' = [loop EXCEPT !.pending = @ \cup {e}]
    /\ UNCHANGED <<now, mounted, cache, app, mp, sysp, perf, det, logp, last,
                   hist, streak, grm, cmp, startup, sysmon, seen>>

\* the loop hands a waiting event to its handler
Dispatch(e) ==
    /\ e \in loop.pending
    /\ LoopIdle(loop)
    /\ \E plan \in Plan(e) :
          loop' = [loop EXCEPT
                      !.pending = @ \ {e},
                      !.handlers[e] = [active |-> TRUE, todo |-> plan,
                                       calling |-> "none"]]
    /\ UNCHANGED <<now, mounted, cache, app, mp, sysp, perf, det, logp, last,
                   hist, streak, grm, cmp, startup, sysmon, seen>>

\* the running handler enters the blocking fetch of its next step
StartFetch(e) ==
    /\ loop.handlers[e].active
    /\ loop.handlers[e].calling = "none"
    /\ loop.handlers[e].todo # <<>>
    /\ Head(loop.handlers[e].todo) \in Sources
    /\ loop' = [loop EXCEPT !.handlers[e].calling = Head(loop.handlers[e].todo)]
    /\ UNCHANGED <<now, mounted, cache, app, mp, sysp, perf, det, logp, last,
                   hist, streak, grm, cmp, startup, sysmon, seen>>

\* the fetch returns or raises, and the handler goes on
CompleteFetch(e) ==
    /\ loop.handlers[e].active
    /\ loop.handlers[e].calling # "none"
    /\ loop' = [loop EXCEPT !.handlers[e].calling = "none",
                            !.handlers[e].todo = Tail(@)]
    /\ UNCHANGED <<now, mounted, cache, app, mp, sysp, perf, det, logp, last,
                   hist, streak, grm, cmp, startup, sysmon, seen>>

\* on_mount starts the refresh timer between its first fetches and its call
\* of refresh_data
SetInterval(e) ==
    /\ loop.handlers[e].active
    /\ loop.handlers[e].calling = "none"
    /\ loop.handlers[e].todo # <<>>
    /\ Head(loop.handlers[e].todo) = "set_interval"
    /\ loop' = [loop EXCEPT !.timer = TRUE, !.handlers[e].todo = Tail(@)]
    /\ UNCHANGED <<now, mounted, cache, app, mp, sysp, perf, det, logp, last,
                   hist, streak, grm, cmp, startup, sysmon, seen>>

\* the handler returns to the loop
Return(e) ==
    /\ loop.handlers[e].active
    /\ loop.handlers[e].calling = "none"
    /\ loop.handlers[e].todo = <<>>
    /\ loop' = [loop EXCEPT !.handlers[e] = NotRunning]
    /\ UNCHANGED <<now, mounted, cache, app, mp, sysp, perf, det, logp, last,
                   hist, streak, grm, cmp, startup, sysmon, seen>>

InitFlight ==
    /\ AtRest
    /\ grm = Idle
    /\ cmp = Idle
    /\ startup = NoConfig
    /\ loop = [IdleLoop EXCEPT !.pending = {"mount"}]

NextFlight ==
    \E e \in Events :
        \/ Post(e)
        \/ Dispatch(e)
        \/ StartFetch(e)
        \/ CompleteFetch(e)
        \/ SetInterval(e)
        \/ Return(e)

SpecFlight == InitFlight /\ [][NextFlight]_vars

(***************************************************************************)
(* SystemPanel over sequences of readings of get_system_usage.             *)
(***************************************************************************)
\* SystemPanel.on_mount: _peak_values starts at 0, then update_metrics
SystemPanelOnMount ==
    /\ ~sysmon.mounted
    /\ \E usage \in UsageReadings :
          /\ sysmon' = UpdateMetrics([UnmountedSystemPanel EXCEPT !.mounted = TRUE], usage)
          /\ seen' = See(NothingSeen, usage)
          /\ last' = [op |-> "on_mount", usage |-> usage,
                      before |-> UnmountedSystemPanel.peak_values]
    /\ UNCHANGED <<now, mounted, cache, app, mp, sysp, perf, det, logp,
                   hist, streak, grm, cmp, startup, loop>>

\* SystemPanel.update_metrics, called by on_mount and refresh_data of the
\* application
SystemPanelUpdateMetrics ==
    /\ sysmon.mounted
    /\ \E usage \in UsageReadings :
          /\ sysmon' = UpdateMetrics(sysmon, usage)
          /\ seen' = See(seen, usage)
          /\ last' = [op |-> "update_metrics", usage |-> usage,
                      before |-> sysmon.peak_values]
    /\ UNCHANGED <<now, mounted, cache, app, mp, sysp, perf, det, logp,
                   hist, streak, grm, cmp, startup, loop>>

InitSys ==
    /\ AtRest
    /\ grm = Idle
    /\ cmp = Idle
    /\ startup = NoConfig
    /\ loop = IdleLoop

NextSys == SystemPanelOnMount \/ SystemPanelUpdateMetrics

SpecSys == InitSys /\ [][NextSys]_vars

(***************************************************************************)
(* Claims on the refresh scheduler.                                        *)
(***************************************************************************)
\* C1: when the model-list fetch of a tick fails (the last retry of
\* get_running_models raised RequestException), _cache['models_data'] keeps
\* the non-empty list it held before the tick.
C1_FailedFetchKeepsCachedList ==
    ( /\ last.op = "refresh"
      /\ last.modFetched
      /\ last.modAnswer.failed
      /\ last.preModels.present
      /\ last.preModels.value # <<>> )
    => cache.models_data = last.preModels

\* C2: within one tick an error raised by one source never keeps another
\* source that is due (by the scheduler's own check) from being refreshed.
C2_ErrorsDoNotStopOtherSources ==
    last.op = "refresh" =>
        /\ last.sysElapsed > SystemInterval => last.sysFetched
        /\ last.modElapsed > ModelsInterval => last.modFetched
        /\ last.perfElapsed > PerformanceInterval => last.perfCalled

\* C3: a source that has failed on 3 consecutive ticks has produced exactly
\* one error notification over those ticks.
C3_OneNotificationPerFailureRun ==
    streak.fails = 3 => streak.notes = 1

\* C4: on every tick each source is fetched if and only if the time since
\* its last fetch is at least its interval; a source whose elapsed time
\* equals its interval is fetched.  Stated for the ticks on which the models
\* fetch did not raise, so that the skipped performance block of C2 plays no
\* part; a source counts as fetched when the scheduler ran its block.
C4_FetchedIffIntervalElapsed ==
    (last.op = "refresh" /\ ~last.modAnswer.raised) =>
        /\ last.sysFetched <=> last.sysElapsed >= SystemInterval
        /\ last.modFetched <=> last.modElapsed >= ModelsInterval
        /\ last.perfCalled <=> last.perfElapsed >= PerformanceInterval

(***************************************************************************)
(* Claims on the change check.                                             *)
(***************************************************************************)
Occurrences(e, l) == Cardinality({i \in 1..Len(l) : l[i] = e})

\* the same entries, each as often, in any order
SameIgnoringOrder(l1, l2) ==
    /\ Len(l1) = Len(l2)
    /\ \A e \in CmpEntries : Occurrences(e, l1) = Occurrences(e, l2)

C23_PanelsUpdatedOnlyOnChange ==
    (last.op = "refresh" /\ last.modFetched /\ ~last.modAnswer.raised) =>
        LET same == /\ last.preModels.present
                    /\ last.modAnswer.value = last.preModels.value
        IN /\ cache.models_last_update = last.at
           /\ same => /\ cache.models_data = last.preModels
                       /\ ~last.panelCalled
                       /\ ~last.statsCalled
           /\ ~same => /\ cache.models_data = [present |-> TRUE,
                                                value |-> last.modAnswer.value]
                        /\ last.panelCalled
                        /\ last.statsCalled

\* a run that fetched the list already cached, two models, and left the
\* panels alone
C23_Witness ==
    /\ last.op = "refresh"
    /\ last.modFetched
    /\ ~last.modAnswer.raised
    /\ last.preModels.present
    /\ Len(last.preModels.value) = 2
    /\ last.modAnswer.value = last.preModels.value
    /\ cache.models_last_update = last.at
    /\ ~last.statsCalled

\* C24: the manual refresh (key r, "Refresh all panels") refreshes every
\* source each time it is invoked: a run of action_refresh fetches system,
\* models and performance, however recently each was refreshed.
C24_ManualRefreshFetchesEverySource ==
    (last.op = "refresh" /\ last.refreshed) =>
        (last.sysFetched /\ last.modFetched /\ last.perfFetched)

\* C25: after a refresh_data run that treated the fetched list as changed, the
\* rows ModelsPanel shows are the rows of the list stored in
\* _cache['models_data']: the shown list and the cached list come from the
\* same fetch.
C25_ShownRowsAreCachedList ==
    (last.op = "refresh" /\ last.changed) =>
        mp.rows = UpdateModels(mp, [value |-> cache.models_data.value,
                                    raised |-> FALSE, failed |-> FALSE]).rows

C6_RetriesWithDoublingDelay ==
    grm.op = "done" =>
        LET r == grm.result
            raising == {k \in 1..r.attempts : grm.outcomes[k].kind = "exc"}
        IN /\ r.attempts <= max_retries
           /\ \A k \in raising : k < max_retries => r.attempts > k
           /\ Len(r.sleeps) = Cardinality({k \in raising : k < max_retries})
           /\ \A i \in 1..Len(r.sleeps) :
                 /\ r.sleeps[i].after + 1 \in raising
                 /\ r.sleeps[i].delay = retry_delay * 2 ^ r.sleeps[i].after
           /\ \A i \in 1..(Len(r.sleeps) - 1) :
                 r.sleeps[i].after < r.sleeps[i + 1].after
           /\ (\A k \in 1..max_retries : grm.outcomes[k].kind = "exc") =>
                 /\ r.attempts = max_retries
                 /\ [i \in 1..Len(r.sleeps) |-> r.sleeps[i].delay]
                      = [i \in 1..(max_retries - 1) |-> retry_delay * 2 ^ (i - 1)]

\* a call whose three attempts all raised, with its two sleeps
C6_Witness ==
    /\ grm.op = "done"
    /\ grm.result.failed
    /\ grm.result.attempts = 3
    /\ Len(grm.result.sleeps) = 2

\* C22: get_running_models never lets a transport failure out: whatever each
\* attempt meets (RequestException, an empty list, a list of models), the call
\* makes at least one and at most 3 requests, an exception leaves it only when
\* a listed entry has no name, never because a request raised, and a call
\* whose last request raised returns the empty list.
C22_TransportFailureReturnsEmptyList ==
    grm.op = "done" =>
        LET r == grm.result
        IN /\ r.attempts \in 1..max_retries
           /\ r.raised =>
                 \E k \in 1..r.attempts :
                     /\ grm.outcomes[k].kind = "ok"
                     /\ ~HasNames(grm.outcomes[k].models)
           /\ grm.outcomes[r.attempts].kind = "exc" =>
                 (~r.raised /\ r.value = <<>> /\ r.attempts = max_retries)

\* a call that met an exception, an empty list and an exception again
C22_Witness ==
    /\ grm.op = "done"
    /\ grm.outcomes[1].kind = "exc"
    /\ grm.outcomes[2] = [kind |-> "ok", models |-> <<>>]
    /\ grm.outcomes[3].kind = "exc"
    /\ grm.result.value = <<>>
    /\ ~grm.result.raised

\* C29: in get_running_models a request answered with an empty list ends the
\* call at once with [], so no request follows it; a further request is made
\* only after a request that raised RequestException, and a sleep precedes it.
C29_EmptyListEndsCall ==
    grm.op = "done" =>
        LET r == grm.result
        IN \A k \in 2..r.attempts :
               /\ grm.outcomes[k - 1].kind = "exc"
               /\ \E i \in 1..Len(r.sleeps) : r.sleeps[i].after = k - 2

(***************************************************************************)
(* Selection.                                                              *)
(***************************************************************************)
\* C7: two selection events for the same model arriving inside the debounce
\* window (50 ms apart) are accepted once: the second one, coming after an
\* accepted selection of the same model, does not run action_select_model's
\* effects again.
C7_SameModelAcceptedOnce ==
    (/\ last.op = "select"
     /\ last.row \in Names
     /\ last.row = last.before
     /\ last.since > 0
     /\ last.since < DebounceWindow)
    => ~last.accepted

\* C8: a selection event for a model other than the selected one is accepted,
\* however soon after the previous accepted selection it arrives.
C8_OtherModelAlwaysAccepted ==
    (/\ last.op = "select"
     /\ last.row \in Names
     /\ last.row # last.before)
    => last.accepted

\* the texts of the lines the log widget shows
Texts(lines) == [i \in 1..Len(lines) |-> lines[i].text]

\* C9: after every accepted selection of a model m, the details panel and the
\* log panel both have m selected, the history of the log panel holds only
\* lines fetched for m by this selection, and the details and the logs of m
\* were fetched again and are displayed.
C9_AcceptedSelectionRefreshesPanels ==
    (last.op = "select" /\ last.accepted /\ last.row \in Names)
    => /\ det.selected_model = last.row
       /\ logp.selected_model = last.row
       /\ logp.history = Range(hist.fetch.lines)
       /\ last.detailsFetched
       /\ det.table.kind \in {"attributes", "error"}
       /\ last.logsFetched
       /\ Range(Texts(logp.lines)) = Range(hist.fetch.lines)

(***************************************************************************)
(* Log deduplication.                                                      *)
(***************************************************************************)
\* the lines the last update_logs call wrote
Emitted == SubSeq(Texts(logp.lines), last.preCount + 1, Len(logp.lines))

\* the texts the widget showed when the last update_logs call began
Written == Range(SubSeq(Texts(logp.lines), 1, last.preCount))

NoDuplicates(q) == \A i, j \in 1..Len(q) : q[i] = q[j] => i = j

\* the first place of x in q
FirstIndex(q, x) == CHOOSE i \in 1..Len(q) : q[i] = x /\ \A j \in 1..(i - 1) : q[j] # x

\* the texts of q in the order in which they first come in L
InArrivalOrder(q, L) ==
    \A i, j \in 1..Len(q) : i < j => FirstIndex(L, q[i]) < FirstIndex(L, q[j])

C11_EmptyAnswerShowsOnePlaceholderOnce ==
    (last.op = "update_logs" /\ last.fetched /\ hist.fetch.answer = "empty")
    => IF last.before.valid /\ last.before.answer = "empty"
       THEN Emitted = <<>>
       ELSE Len(Emitted) = 1

\* C12: a written line is styled as an error when it holds 'error' in any
\* letter case, else as a warning when it holds 'warning' in any letter
\* case, else as information.
C12_SeverityIgnoresCase ==
    \A i \in 1..Len(logp.lines) :
        logp.lines[i] # SelectPrompt =>
            LET c == Lower(LineChars(logp.lines[i].text))
            IN logp.lines[i].style =
                  IF Contains(c, <<"e","r","r","o","r">>) THEN "red"
                  ELSE IF Contains(c, <<"w","a","r","n","i","n","g">>) THEN "yellow"
                  ELSE "green"

(***************************************************************************)
(* Claims on the descriptors of get_running_models.                        *)
(***************************************************************************)
\* the entries of a listing that have a name, in their order
Named(listing) == SelectSeq(listing, LAMBDA e : "name" \in DOMAIN e)

\* C13: an entry that cannot be resolved (it has no name) is skipped: a call
\* that meets a listing with other entries returns, and its list holds the
\* descriptors of all those other entries.
C13_MalformedEntrySkipped ==
    (grm.op = "listed" /\ Named(grm.listing) # <<>>) =>
        \A c \in 1..Len(grm.calls) :
            /\ ~grm.calls[c].raised
            /\ RowNames(grm.calls[c].value) = RowNames(Named(grm.listing))

\* the family table, in its order
Families ==
    << <<"l","l","a","m","a">>, <<"m","i","s","t","r","a","l">>, <<"g","e","m","m","a">>,
       <<"q","w","e","n">>, <<"p","h","i">> >>

\* the first entry of an ordered table of markers found in s, else default
FirstMatch(markers, values, s, default) ==
    IF \E i \in 1..Len(markers) : Contains(s, markers[i])
    THEN values[CHOOSE i \in 1..Len(markers) :
                    /\ Contains(s, markers[i])
                    /\ \A j \in 1..(i - 1) : ~Contains(s, markers[j])]
    ELSE default

\* the calls that returned, and the descriptors they gave to the entries
Returned == {c \in 1..Len(grm.calls) : ~grm.calls[c].raised}

\* C14: the family of a descriptor is the first family of the table found in
\* the part of the name before ':' without regard to letter case, and that
\* part verbatim when none is found.
C14_FamilyIgnoresCase ==
    grm.op = "listed" =>
        \A c \in Returned : \A i \in 1..Len(grm.calls[c].value) :
            LET base == BeforeColon(Chars(grm.calls[c].value[i].name))
            IN grm.calls[c].value[i].details.family
                  = FirstMatch(Families, Families, Lower(base), base)

\* C15: the parameter size of a descriptor is that of the first of the
\* markers 70b, 13b, 7b, 3b found in the lower-cased name, and 7B when none
\* is found; its quantization is that of the first of the markers q4, q8
\* found there, and the default Q4_K_M when none is found.
C15_ScaleAndQuantFromOrderedMarkers ==
    grm.op = "listed" =>
        \A c \in Returned : \A i \in 1..Len(grm.calls[c].value) :
            LET d == grm.calls[c].value[i]
                lower == Lower(Chars(d.name))
            IN /\ d.details.parameter_size
                    = FirstMatch(<< <<"7","0","b">>, <<"1","3","b">>, <<"7","b">>, <<"3","b">> >>,
                                 <<"70B", "13B", "7B", "3B">>, lower, "7B")
               /\ d.details.quantization_level
                    = FirstMatch(<< <<"q","4">>, <<"q","8">> >>, <<"Q4_K_M", "Q8_0">>,
                                 lower, "Q4_K_M")

\* llama3:70b-q4_K_M resolved to 70B and Q4_K_M, Llama-2:13b to 13B
C15_Witness ==
    /\ grm.op = "listed"
    /\ grm.listing = <<RawTagged, RawUpper>>
    /\ Len(grm.calls) >= 1
    /\ grm.calls[1].value[1].details.parameter_size = "70B"
    /\ grm.calls[1].value[1].details.quantization_level = "Q4_K_M"
    /\ grm.calls[1].value[2].details.parameter_size = "13B"

\* the characters of the family names the backend supplies
HintChars(f) == IF f = "gemma" THEN <<"g","e","m","m","a">> ELSE <<>>

\* C16: where the backend supplies details for an entry, each value supplied
\* (family, parameter size, quantization) is the one of the descriptor.
C16_HintsOverrideParsedFields ==
    grm.op = "listed" =>
        \A c \in Returned : \A i \in 1..Len(grm.listing) :
            "details" \in DOMAIN grm.listing[i] =>
                LET hints == grm.listing[i].details
                    d == grm.calls[c].value[i].details
                IN /\ d.family = HintChars(hints.family)
                   /\ d.parameter_size = hints.parameter_size
                   /\ d.quantization_level = hints.quantization_level

C18_TimerPeriodConfiguredOrDefault ==
    /\ mounted <=> startup.timer
    /\ startup.timer =>
          startup.period =
              IF startup.config.kind \in {"number", "digits"} /\ startup.config.value > 0
              THEN startup.config.value
              ELSE DefaultRefreshInterval

(***************************************************************************)
(* Claims on the handlers of the event loop.                               *)
(***************************************************************************)
\* C19: for each source there is never more than one fetch in flight, whatever
\* the order in which timer ticks, the key r and the first refresh of on_mount
\* arrive: no fetch of a source starts before the previous fetch of that
\* source has completed.
C19_OneFetchInFlightPerSource ==
    \A s \in Sources : InFlight(loop, s) <= 1

\* a timer tick and the key r wait while the first refresh of on_mount is
\* inside its fetch of the model list
C19_Witness ==
    /\ loop.handlers["mount"].active
    /\ loop.timer
    /\ loop.handlers["mount"].calling = "models"
    /\ loop.pending = {"timer", "key_r"}

(***************************************************************************)
(* Claims on SystemPanel.                                                  *)
(***************************************************************************)
\* C20: the peak SystemPanel keeps per resource is a monotonic maximum: after
\* any sequence of update_metrics calls since mount, the peak of each resource
\* is not below the peak it had before the call and is at least every value
\* get_system_usage returned for that resource.
C20_PeakCoversEveryReading ==
    (sysmon.mounted /\ last.op = "update_metrics") =>
        \A r \in Resources :
            /\ sysmon.peak_values[r] >= last.before[r]
            /\ sysmon.peak_values[r] >= seen[r]

(***************************************************************************)
(* Claims on the start of the tui command.                                 *)
(***************************************************************************)
\* C21: when the backend cannot be reached at all during the connection check
\* of show_tui (every attempt raises RequestException), show_tui ends with an
\* exception, so the command exits non-zero, and the application and its
\* refresh timer are not started.
C21_UnreachableBackendEndsStartup ==
    (/\ grm.op = "show_tui"
     /\ \A k \in 1..max_retries : grm.outcomes[k].kind = "exc")
    => (grm.raised /\ loop.pending = {})

\* C27: when get_system_usage returns with numeric CPU and RAM percentages,
\* SystemPanel.update_metrics leaves a CPU row and a RAM row in the table and
\* emits no error notification.
C27_UpdateMetricsShowsCpuAndRam ==
    (last.op = "update_metrics" /\ ~last.usage.raised) =>
        /\ \E i \in 1..Len(sysmon.rows) :
               sysmon.rows[i].resource = "CPU" /\ sysmon.rows[i].numeric
        /\ \E i \in 1..Len(sysmon.rows) :
               sysmon.rows[i].resource = "RAM" /\ sysmon.rows[i].numeric
        /\ ~sysmon.notified

(***************************************************************************)
(* Claims on what a selection leaves in the panels.                        *)
(***************************************************************************)
\* C26: after update_details(name) called by a selection for a model row, the
\* details table holds the attribute rows of that model; two such calls less
\* than 1 second apart never leave the table empty or showing another model.
C26_DetailsShownAfterEverySelection ==
    (last.op = "select" /\ last.accepted /\ last.row \in Names) =>
        /\ det.table.kind \notin {"empty", "placeholder"}
        /\ det.table.kind = "attributes" => det.table.model = last.row
        /\ ~last.detailsFetched => det.table.kind = "attributes"

\* C28: action_select_model never makes a placeholder or error row the
\* selected model: selected_model of the details panel and of the log panel is
\* None or the name of a model, never the text of the "No models" row or of
\* the "Error loading models" row.
C28_SelectedModelIsAModel ==
    /\ det.selected_model \in Names \cup {None}
    /\ logp.selected_model \in Names \cup {None}

====
